---- MODULE Spec2Model ----
(***************************************************************************)
(* WoW Texture Viewer API: the upload / list / delete / serve handlers of  *)
(* src/main.py and of its near-duplicate src/backend/main.py, over a       *)
(* metadata table (SQLite) and a directory of canonical PNG files.         *)
(*                                                                         *)
(* Text is a sequence of one-character strings; a path or a URL path is a  *)
(* sequence of components, each component a text.                          *)
(*                                                                         *)
(* upload is a coroutine of the one event loop: it runs until it awaits    *)
(* (f.read(), once per supported file), where other upload requests begin  *)
(* or resume; it keeps one SQLite transaction open from its first INSERT   *)
(* to its commit. delete_image, list_images and serve_file run in worker   *)
(* threads and interleave with the uploads and with each other statement   *)
(* by statement. SQLite admits one writer at a time and keeps a rollback   *)
(* journal beside the database while a write transaction is open; a writer *)
(* that finds the lock held waits, at most sqlite3's timeout. Rows are     *)
(* seen by the other connections once committed. Wall-clock reads and the  *)
(* faults of reads, of the filesystem and of INSERT are choices of the     *)
(* environment.                                                            *)
(***************************************************************************)
EXTENDS Integers, Sequences, FiniteSets, TLC

\* ------------------------------------------------------------------ bounds
\* Longest upload batch a request carries.
MaxBatch == 2
\* Files submitted over a run, all requests together.
MaxFiles == 2

\* ------------------------------------------------------------------- text
AsciiUpper ==
  <<"A","B","C","D","E","F","G","H","I","J","K","L","M",
    "N","O","P","Q","R","S","T","U","V","W","X","Y","Z">>

AsciiLower ==
  <<"a","b","c","d","e","f","g","h","i","j","k","l","m",
    "n","o","p","q","r","s","t","u","v","w","x","y","z">>

\* A-Z to a-z, as a table.
AsciiFold ==
  [c \in {AsciiUpper[i] : i \in DOMAIN AsciiUpper} |->
     AsciiLower[CHOOSE i \in DOMAIN AsciiUpper : AsciiUpper[i] = c]]

\* One character folded the way SQLite's LOWER() and LIKE fold it: A-Z only.
AsciiLowerChar(c) == IF c \in DOMAIN AsciiFold THEN AsciiFold[c] ELSE c

\* One character folded the way Python's str.lower() folds it: Unicode aware.
\* "U+00C9" is LATIN CAPITAL LETTER E WITH ACUTE, "U+00E9" its small form.
PyLowerChar(c) ==
  IF c = "U+00C9" THEN "U+00E9" ELSE AsciiLowerChar(c)

\* str.lower()
PyLower(s) == [i \in DOMAIN s |-> PyLowerChar(s[i])]

\* SQL LOWER(): "only works for ASCII characters by default"
SqlLower(s) == [i \in DOMAIN s |-> AsciiLowerChar(s[i])]

\* str.endswith / str.startswith
EndsWith(s, suf) ==
  /\ Len(suf) <= Len(s)
  /\ SubSeq(s, Len(s) - Len(suf) + 1, Len(s)) = suf

StartsWith(s, pre) ==
  /\ Len(pre) <= Len(s)
  /\ SubSeq(s, 1, Len(pre)) = pre

\* s.split(sep)[-1]: what follows the last occurrence of sep (all of s if none)
SplitLast(s, sep) ==
  LET hits == {i \in DOMAIN s : s[i] = sep}
  IN  IF hits = {} THEN s
      ELSE SubSeq(s, (CHOOSE i \in hits : \A j \in hits : j <= i) + 1, Len(s))

\* The SQL LIKE operator of SQLite: % matches any run of characters, _ any
\* one character, anything else itself, upper and lower ASCII letters alike.
RECURSIVE Like(_, _)
Like(pat, txt) ==
  IF pat = <<>> THEN txt = <<>>
  ELSE IF Head(pat) = "%"
       THEN Like(Tail(pat), txt) \/ (txt # <<>> /\ Like(pat, Tail(txt)))
       ELSE /\ txt # <<>>
            /\ \/ Head(pat) = "_"
               \/ AsciiLowerChar(Head(pat)) = AsciiLowerChar(Head(txt))
            /\ Like(Tail(pat), Tail(txt))

\* Text comparison of SQLite's default BINARY collation (memcmp, then length),
\* over the characters a timestamp is written with.
CodeOrder == <<".", "0", "1", "2">>

Code(c) == CHOOSE i \in DOMAIN CodeOrder : CodeOrder[i] = c

RECURSIVE TextLess(_, _)
TextLess(a, b) ==
  IF b = <<>> THEN FALSE
  ELSE IF a = <<>> THEN TRUE
  ELSE IF Head(a) # Head(b) THEN Code(Head(a)) < Code(Head(b))
  ELSE TextLess(Tail(a), Tail(b))

\* ------------------------------------------------------- paths and storage
BASE_DIR == << <<"app">> >>

STATIC_DIR == BASE_DIR \o << <<"static">> >>

\* IMAGE_DIR when the environment does not set it, and IMG_DIR of the backend
DefaultImageDir == STATIC_DIR \o << <<"images">> >>

\* IMAGE_DIR=/data/images, the persistent disk the source's comment suggests
VolumeImageDir == << <<"data">>, <<"images">> >>

\* The deployments modelled: src/main.py with IMAGE_DIR unset or set to a
\* volume, and src/backend/main.py (whose directories are fixed).
Deployments ==
  { [app |-> "main",    image_dir |-> DefaultImageDir],
    [app |-> "main",    image_dir |-> VolumeImageDir],
    [app |-> "backend", image_dir |-> DefaultImageDir] }

\* The file names of the database and of the rollback journal SQLite keeps
\* beside it while a write transaction is open.
DB_NAME == <<"images", ".db">>

JOURNAL_NAME == <<"images", ".db-journal">>

DB_PATH(dep) ==
  IF dep.app = "main" THEN dep.image_dir \o << DB_NAME >>
  ELSE BASE_DIR \o << DB_NAME >>

JOURNAL_PATH(dep) ==
  SubSeq(DB_PATH(dep), 1, Len(DB_PATH(dep)) - 1) \o << JOURNAL_NAME >>

\* f"{iid}.png"
PngName(iid) == <<iid, ".png">>

\* IMAGE_DIR / f"{iid}.png"
FilePath(dep, iid) == dep.image_dir \o << PngName(iid) >>

\* uuid.uuid4().hex: the k-th identifier drawn (distinct draws never collide)
IdPool == <<"1f", "2e", "3d", "4c", "5b">>

\* ------------------------------------------------------------------ codec
\* Uploaded bytes: either no image at all, or an image of some pixel size.
Junk == [decodable |-> FALSE, width |-> 0, height |-> 0]

Picture(w, h) == [decodable |-> TRUE, width |-> w, height |-> h]

\* imageio.imread(raw).shape: rows first, then columns
imread_shape(raw) == <<raw.height, raw.width>>

\* What a file on disk holds.
PngBytes(w, h) == [kind |-> "png", width |-> w, height |-> h]

\* What an interrupted write leaves: some of the PNG's bytes, not all.
PartialBytes == [kind |-> "partial", width |-> 0, height |-> 0]

SqliteBytes == [kind |-> "sqlite", width |-> 0, height |-> 0]

\* A file just created by open(path, "wb"): no bytes yet.
EmptyBytes == [kind |-> "empty", width |-> 0, height |-> 0]

JournalBytes == [kind |-> "journal", width |-> 0, height |-> 0]

\* A plausible slip in to_png_bytes: the array's axes read in the wrong order.
to_png_bytes_swapped(app, raw) ==
  IF ~raw.decodable
  THEN [ok |-> FALSE, png |-> PartialBytes, w |-> 0, h |-> 0]
  ELSE LET shape == imread_shape(raw)
       IN  [ok |-> TRUE, png |-> PngBytes(shape[2], shape[1]),
            w |-> shape[1], h |-> shape[2]]

\* to_png_bytes: ok = FALSE is the raise (UnidentifiedImageError, or any other
\* exception of the codec); otherwise the PNG, and the width and height.
to_png_bytes(app, raw) ==
  IF ~raw.decodable
  THEN [ok |-> FALSE, png |-> PartialBytes, w |-> 0, h |-> 0]
  ELSE IF app = "main"
       THEN LET shape == imread_shape(raw)
                h == shape[1]
                w == shape[2]
            IN  [ok |-> TRUE, png |-> PngBytes(shape[2], shape[1]),
                 w |-> w, h |-> h]
       ELSE [ok |-> TRUE, png |-> PngBytes(raw.width, raw.height),
             w |-> raw.width, h |-> raw.height]

\* ------------------------------------------------------------- classifier
SUPPORTED ==
  { <<".","p","n","g">>, <<".","j","p","g">>, <<".","j","p","e","g">>,
    <<".","w","e","b","p">>, <<".","b","m","p">> }

SUPPORTED_backend ==
  SUPPORTED \cup { <<".","b","l","p">>, <<".","t","g","a">> }

Supported(app) == IF app = "main" THEN SUPPORTED ELSE SUPPORTED_backend

\* A plausible slip in ext_of: the other implementation's extension list.
ext_of_backend_list(app, filename) ==
  LET low == PyLower(filename)
      hit == {e \in SUPPORTED_backend : EndsWith(low, e)}
  IN  IF hit # {} THEN CHOOSE e \in hit : TRUE ELSE <<>>

\* ext_of: the supported extension the lowercased name ends with, or "".
ext_of(app, filename) ==
  LET low == PyLower(filename)
      hit == {e \in Supported(app) : EndsWith(low, e)}
  IN  IF hit # {} THEN CHOOSE e \in hit : TRUE ELSE <<>>

\* f.filename.split("/")[-1].split("\\")[-1]
StripPath(filename) == SplitLast(SplitLast(filename, "/"), "\\")

\* -------------------------------------------------------------------- urls
\* A plausible slip in build_public_url: the static URL built from the bare
\* file name, dropping the directory below static/.
build_public_url_flat(file_path) ==
  IF StartsWith(file_path, STATIC_DIR)
  THEN << <<"static">>, file_path[Len(file_path)] >>
  ELSE << <<"api">>, <<"file">>, file_path[Len(file_path)] >>

\* build_public_url: "/static/<rel>" for a path under STATIC_DIR (relative_to
\* succeeds), "/api/file/<name>" otherwise (relative_to raises ValueError).
build_public_url(file_path) ==
  IF StartsWith(file_path, STATIC_DIR)
  THEN LET rel == SubSeq(file_path, Len(STATIC_DIR) + 1, Len(file_path))
       IN  << <<"static">> >> \o rel
  ELSE << <<"api">>, <<"file">>, file_path[Len(file_path)] >>

\* The url upload stores: build_public_url(file_path) in src/main.py, the
\* literal f"/static/images/{iid}.png" in src/backend/main.py.
UrlFor(dep, iid) ==
  IF dep.app = "main" THEN build_public_url(FilePath(dep, iid))
  ELSE << <<"static">>, <<"images">>, PngName(iid) >>

\* The path delete_image derives from a row's url; <<>> is None.
RemovalPath(dep, url) ==
  IF dep.app = "main"
  THEN IF StartsWith(url, << <<"static">> >>)
       THEN STATIC_DIR \o SubSeq(url, 2, Len(url))
       ELSE IF StartsWith(url, << <<"api">>, <<"file">> >>)
            THEN dep.image_dir \o << url[Len(url)] >>
            ELSE <<>>
  ELSE BASE_DIR \o url

\* ------------------------------------------------------------- timestamps
\* datetime.datetime.utcnow(): <<second, microsecond>> of the wall clock.
Instants == { <<0, 0>>, <<0, 1>>, <<1, 0>> }

\* One of them, for the runs in which the time of day plays no part.
OneInstant == { <<0, 0>> }

Digit == <<"0", "1", "2">>

\* datetime.isoformat(): the fraction is left out when microsecond is 0.
isoformat(t) ==
  IF t[2] = 0 THEN << Digit[t[1] + 1] >>
  ELSE << Digit[t[1] + 1], ".", Digit[t[2] + 1] >>

\* ------------------------------------------------------------------ inputs
\* File names a client may send (before any path is stripped).
Name_a_png == <<"a", ".", "p", "n", "g">>

Name_dir_B_JPG == <<"d", "/", "B", "_", ".", "J", "P", "G">>

Name_a_tga == <<"a", ".", "t", "g", "a">>

Name_win_b_bmp == <<"c", "\\", "b", ".", "b", "m", "p">>

Name_a_txt == <<"a", ".", "t", "x", "t">>

Name_E_png == <<"U+00C9", ".", "p", "n", "g">>

\* The uploaded parts a request is made of: a file name and the bytes.
Files ==
  { [filename |-> Name_a_png,     raw |-> Picture(2, 1)],
    [filename |-> Name_dir_B_JPG, raw |-> Picture(1, 2)],
    [filename |-> Name_a_tga,     raw |-> Picture(2, 1)],
    [filename |-> Name_win_b_bmp, raw |-> Junk],
    [filename |-> Name_a_txt,     raw |-> Picture(2, 1)],
    [filename |-> Name_E_png,     raw |-> Picture(1, 2)] }

\* Two of them, for the runs whose subject is the interleaving of requests:
\* one file that is stored and one that the codec refuses.
PlainFiles ==
  { [filename |-> Name_a_png,     raw |-> Picture(2, 1)],
    [filename |-> Name_win_b_bmp, raw |-> Junk] }

\* The requests of at most MaxBatch parts drawn from F (the empty one too).
Batches(F) == UNION { [1..n -> F] : n \in 0..MaxBatch }

\* The search strings a client may send; <<>> is an absent or empty one.
Searches ==
  { <<>>, <<"A">>, <<"_">>, <<"b", "_">>, <<"U+00C9">>, <<"z">> }

\* The POST /api/upload requests of a run: coroutines of the one event loop.
Uploaders == {"u1", "u2"}

\* The DELETE requests of a run, each served by a worker thread of its own.
Deleters == {"d1", "d2"}

\* An identifier uuid4 never handed out.
UnknownId == "00"

\* ------------------------------------------------------------------- state
VARIABLES
  dep,        \* the deployment: which app, and where IMAGE_DIR points
  rows,       \* the committed rows of table images
  disk,       \* the files on disk: path -> content
  nextId,     \* how many identifiers uuid4 has handed out, plus one
  up,         \* the upload requests: one record per coroutine
  del,        \* the delete requests: one record per worker thread
  srv,        \* the direct file fetch whose response is being sent, if any
  resp,       \* the response of the read handler that just ran, if one did
  okDeleted   \* history: the ids some delete request reported as deleted

vars == <<dep, rows, disk, nextId, up, del, srv, resp, okDeleted>>

Range(q) == {q[i] : i \in DOMAIN q}

\* The directory files with p holding content / without p.
WithFile(files, p, content) ==
  [q \in DOMAIN files \cup {p} |-> IF q = p THEN content ELSE files[q]]

WithoutFile(files, p) == [q \in DOMAIN files \ {p} |-> files[q]]

NoCur == [iid |-> "", name |-> <<>>, w |-> 0, h |-> 0, png |-> PartialBytes]

IdleUpload ==
  [pc |-> "idle", files |-> <<>>, i |-> 1, out |-> <<>>, txn |-> <<>>,
   status |-> 0, cur |-> NoCur,
   \* history of the request: the identifiers it drew, and the positions of
   \* the files whose read raised, that were handed to the codec, that had a
   \* file created on disk, and whose open, write or INSERT raised
   drawn |-> {}, unread |-> {}, decoded |-> {}, wrote |-> {}, faulted |-> {}]

IdleDelete ==
  [pc |-> "idle", id |-> "", url |-> <<>>, status |-> 0,
   found |-> FALSE, late |-> FALSE, file |-> "none"]

IdleServe == [pc |-> "idle", name |-> <<>>]

NoResp ==
  [op |-> "none", status |-> 0, search |-> <<>>, items |-> <<>>,
   name |-> <<>>, body |-> PartialBytes]

\* init_db() has run: the database file exists, the table is empty.
Init ==
  /\ dep \in Deployments
  /\ rows = {}
  /\ disk = [p \in {DB_PATH(dep)} |-> SqliteBytes]
  /\ nextId = 1
  /\ up = [u \in Uploaders |-> IdleUpload]
  /\ del = [d \in Deleters |-> IdleDelete]
  /\ srv = IdleServe
  /\ resp = NoResp
  /\ okDeleted = {}

\* ------------------------------------------------------- event loop, locks
\* The upload coroutines that hold the event loop: begun or resumed, and not
\* yet at their next await nor at their return. No other coroutine runs
\* until they get there.
Running == {u \in Uploaders : up[u].pc \in {"file", "write", "insert"}}

\* The connections that hold SQLite's write lock: an upload from its first
\* INSERT to its commit, a delete from its DELETE to its commit.
Writers ==
  {u \in Uploaders : up[u].pc # "done" /\ up[u].txn # <<>>}
    \cup {d \in Deleters : del[d].pc = "commit"}

\* The number of files the requests of S have submitted.
RECURSIVE Submitted(_)
Submitted(S) ==
  IF S = {} THEN 0
  ELSE LET u == CHOOSE x \in S : TRUE
       IN  Len(up[u].files) + Submitted(S \ {u})

\* ------------------------------------------------------------------ upload
\* The loop moves on to the next file.
NextFile(u) == [u EXCEPT !.i = @ + 1, !.pc = "file", !.cur = NoCur]

\* A plausible slip: a per-file exception that escapes the loop (no except
\* clause), so the request ends in a 500 and nothing is committed.
SkipFileAbort(u) ==
  [u EXCEPT !.pc = "done", !.status = 500, !.out = <<>>, !.txn = <<>>,
            !.cur = NoCur]

\* except UnidentifiedImageError: continue / except Exception: continue
SkipFile(u) == NextFile(u)

\* POST /api/upload arrives; an empty list is refused with 400. The handler
\* starts when no other coroutine holds the event loop. Each coroutine of
\* Uploaders serves one request.
UploadBegin(u, batches) ==
  /\ up[u].pc = "idle"
  /\ Running = {}
  /\ \E files \in batches :
       /\ Submitted(Uploaders) + Len(files) <= MaxFiles
       /\ up' = [up EXCEPT ![u] =
                   IF files = <<>>
                   THEN [IdleUpload EXCEPT !.pc = "done", !.status = 400]
                   ELSE [IdleUpload EXCEPT !.pc = "file", !.files = files]]
  /\ resp' = NoResp
  /\ UNCHANGED <<dep, rows, disk, nextId, del, srv, okDeleted>>

\* The head of the loop body: strip the path, classify; an unsupported name
\* is skipped, a supported one reaches "await f.read()", where the coroutine
\* gives up the event loop.
UploadClassify(u) ==
  /\ up[u].pc = "file"
  /\ up[u].i <= Len(up[u].files)
  /\ LET name == StripPath(up[u].files[up[u].i].filename)
     IN  up' = [up EXCEPT ![u] =
                  IF ext_of(dep.app, name) = <<>> THEN NextFile(up[u])
                  ELSE [up[u] EXCEPT !.pc = "read"]]
  /\ resp' = NoResp
  /\ UNCHANGED <<dep, rows, disk, nextId, del, srv, okDeleted>>

\* The coroutine is resumed with the outcome of f.read(): the read raised,
\* or the bytes are decoded and, for an image, an id is drawn and the file
\* is opened for writing (created, empty).
UploadRead(u) ==
  /\ up[u].pc = "read"
  /\ Running = {}
  /\ resp' = NoResp
  /\ UNCHANGED <<dep, rows, del, srv, okDeleted>>
  /\ LET me   == up[u]
         f    == me.files[me.i]
         name == StripPath(f.filename)
         r    == to_png_bytes(dep.app, f.raw)
         dec  == [me EXCEPT !.decoded = @ \cup {me.i}]
         iid  == IdPool[nextId]
         fp   == FilePath(dep, iid)
         got  == [dec EXCEPT !.drawn = @ \cup {iid}]
     IN  \/ \* f.read() raises
            /\ up' = [up EXCEPT ![u] =
                        SkipFile([me EXCEPT !.unread = @ \cup {me.i}])]
            /\ UNCHANGED <<disk, nextId>>
         \/ \* to_png_bytes raises
            /\ ~r.ok
            /\ up' = [up EXCEPT ![u] = SkipFile(dec)]
            /\ UNCHANGED <<disk, nextId>>
         \/ /\ r.ok
            /\ nextId' = nextId + 1
            /\ \/ \* open() raises: no file
                  /\ up' = [up EXCEPT ![u] =
                              SkipFile([got EXCEPT !.faulted = @ \cup {me.i}])]
                  /\ UNCHANGED disk
               \/ \* open() creates the file
                  /\ up' = [up EXCEPT ![u] =
                              [got EXCEPT !.wrote = @ \cup {me.i},
                                          !.pc = "write",
                                          !.cur = [iid |-> iid, name |-> name,
                                                   w |-> r.w, h |-> r.h,
                                                   png |-> r.png]]]
                  /\ disk' = WithFile(disk, fp, EmptyBytes)

\* fp.write(png) and the close of the file.
UploadWrite(u) ==
  /\ up[u].pc = "write"
  /\ LET fp == FilePath(dep, up[u].cur.iid)
     IN  \/ \* fp.write() raises: a truncated file stays
            /\ up' = [up EXCEPT ![u] =
                        SkipFile([up[u] EXCEPT !.faulted = @ \cup {up[u].i}])]
            /\ disk' = WithFile(disk, fp, PartialBytes)
         \/ \* the PNG is written
            /\ up' = [up EXCEPT ![u].pc = "insert"]
            /\ disk' = WithFile(disk, fp, up[u].cur.png)
  /\ resp' = NoResp
  /\ UNCHANGED <<dep, rows, nextId, del, srv, okDeleted>>

\* The rest of the loop body: the url, the timestamp, the INSERT and the
\* append to out. The INSERT takes SQLite's write lock for the request's
\* transaction (and SQLite creates the rollback journal next to the
\* database); it goes through when no other connection holds the lock. While
\* another upload holds it the call can only time out: the holder is a
\* coroutine of the event loop this call blocks.
UploadInsert(u, instants) ==
  /\ up[u].pc = "insert"
  /\ resp' = NoResp
  /\ UNCHANGED <<dep, rows, nextId, del, srv, okDeleted>>
  /\ \E t \in instants :
       LET item == [id |-> up[u].cur.iid, name |-> up[u].cur.name,
                    width |-> up[u].cur.w, height |-> up[u].cur.h,
                    url |-> UrlFor(dep, up[u].cur.iid),
                    created_at |-> isoformat(t)]
       IN  \/ \* con.execute raises (database is locked, disk full, ...)
              /\ up' = [up EXCEPT ![u] =
                          SkipFile([up[u] EXCEPT !.faulted = @ \cup {up[u].i}])]
              /\ UNCHANGED disk
           \/ /\ Writers \subseteq {u}
              /\ up' = [up EXCEPT ![u] =
                          NextFile([up[u] EXCEPT !.txn = Append(@, item),
                                                 !.out = Append(@, item)])]
              /\ disk' = WithFile(disk, JOURNAL_PATH(dep), JournalBytes)

\* con.commit() and return out: the rows become visible to other
\* connections, the journal is removed, the write lock released.
UploadCommit(u) ==
  /\ up[u].pc = "file"
  /\ up[u].i > Len(up[u].files)
  /\ rows' = rows \cup Range(up[u].txn)
  /\ disk' = IF up[u].txn = <<>> THEN disk
             ELSE WithoutFile(disk, JOURNAL_PATH(dep))
  /\ up' = [up EXCEPT ![u].pc = "done", ![u].status = 200, ![u].txn = <<>>]
  /\ resp' = NoResp
  /\ UNCHANGED <<dep, nextId, del, srv, okDeleted>>

\* ------------------------------------------------------------------ delete
\* The ids a client may ask to delete: every id handed out so far (a client
\* learns them from upload's and list's responses) and one unknown id.
KnownIds == {IdPool[k] : k \in 1..(nextId - 1)}

RowIds == {r.id : r \in rows}

\* DELETE FROM images WHERE id = ?, committed
DeleteFrom(table, image_id) == {r \in table : r.id # image_id}

\* except Exception: pass, then return {"ok": True}
UnlinkErrorSwallowed(dl, how) ==
  [dl EXCEPT !.pc = "done", !.status = 200, !.file = how]

\* DELETE /api/images/{image_id} arrives: SELECT url FROM images WHERE id = ?
\* and, with no row, the 404. Each worker of Deleters serves one request.
DeleteLookup(d) ==
  /\ del[d].pc = "idle"
  /\ \E image_id \in KnownIds \cup {UnknownId} :
       LET hit  == {r \in rows : r.id = image_id}
           base == [IdleDelete EXCEPT !.id = image_id,
                                      !.late = (image_id \in okDeleted)]
       IN  del' = [del EXCEPT ![d] =
                     IF hit = {}
                     THEN [base EXCEPT !.pc = "done", !.status = 404]
                     ELSE [base EXCEPT !.pc = "delrow", !.found = TRUE,
                                       !.url = (CHOOSE r \in hit : TRUE).url]]
  /\ resp' = NoResp
  /\ UNCHANGED <<dep, rows, disk, nextId, up, srv, okDeleted>>

\* con.execute("DELETE ..."). SQLite admits one writer. With the lock free
\* the statement takes it (and the journal appears when a row is removed).
\* With the lock held the call waits, at most sqlite3's timeout of 5 s: an
\* upload keeps the lock over its awaits, so the wait can run out, and the
\* OperationalError leaves delete_image uncaught: a 500, the row still
\* stored, the file untouched.
DeleteRow(d) ==
  /\ del[d].pc = "delrow"
  /\ \/ /\ Writers = {}
        /\ del' = [del EXCEPT ![d].pc = "commit"]
        /\ disk' = IF del[d].id \in RowIds
                   THEN WithFile(disk, JOURNAL_PATH(dep), JournalBytes)
                   ELSE disk
     \/ /\ Writers \cap Uploaders # {}
        /\ del' = [del EXCEPT ![d].pc = "done", ![d].status = 500]
        /\ UNCHANGED disk
  /\ resp' = NoResp
  /\ UNCHANGED <<dep, rows, nextId, up, srv, okDeleted>>

\* con.commit(), and the connection is closed.
DeleteCommit(d) ==
  /\ del[d].pc = "commit"
  /\ rows' = DeleteFrom(rows, del[d].id)
  /\ disk' = WithoutFile(disk, JOURNAL_PATH(dep))
  /\ del' = [del EXCEPT ![d].pc = "path"]
  /\ resp' = NoResp
  /\ UNCHANGED <<dep, nextId, up, srv, okDeleted>>

\* The path is derived from the url; "if path and path.exists()".
DeleteExists(d) ==
  /\ del[d].pc = "path"
  /\ LET path == RemovalPath(dep, del[d].url)
     IN  IF path # <<>> /\ path \in DOMAIN disk
         THEN /\ del' = [del EXCEPT ![d].pc = "unlink"]
              /\ UNCHANGED okDeleted
         ELSE /\ del' = [del EXCEPT ![d].pc = "done", ![d].status = 200,
                                    ![d].file = "absent"]
              /\ okDeleted' = okDeleted \cup {del[d].id}
  /\ resp' = NoResp
  /\ UNCHANGED <<dep, rows, disk, nextId, up, srv>>

\* path.unlink(), and the return.
DeleteUnlink(d) ==
  /\ del[d].pc = "unlink"
  /\ LET path == RemovalPath(dep, del[d].url)
     IN  IF path \notin DOMAIN disk
         THEN \* removed by another request since exists(): FileNotFoundError
              /\ del' = [del EXCEPT ![d] = UnlinkErrorSwallowed(del[d], "vanished")]
              /\ UNCHANGED disk
         ELSE \/ \* unlink raises (permission denied, read-only volume, ...)
                 /\ del' = [del EXCEPT ![d] = UnlinkErrorSwallowed(del[d], "error")]
                 /\ UNCHANGED disk
              \/ /\ del' = [del EXCEPT ![d].pc = "done", ![d].status = 200,
                                       ![d].file = "removed"]
                 /\ disk' = WithoutFile(disk, path)
  /\ okDeleted' = okDeleted \cup {del[d].id}
  /\ resp' = NoResp
  /\ UNCHANGED <<dep, rows, nextId, up, srv>>

\* -------------------------------------------------------------------- list
\* The orders in which the rows of S may come back.
Perms(S) ==
  {q \in [1..Cardinality(S) -> S] : \A i, j \in DOMAIN q : i # j => q[i] # q[j]}

\* A plausible slip: ORDER BY created_at (ascending).
OrderByCreatedAtAsc(S) ==
  {q \in Perms(S) :
     \A i, j \in DOMAIN q : i < j => ~TextLess(q[j].created_at, q[i].created_at)}

\* ORDER BY created_at DESC: any order of the rows in which no row comes
\* before one with a greater created_at (rows that tie come in either order).
OrderByCreatedAtDesc(S) ==
  {q \in Perms(S) :
     \A i, j \in DOMAIN q : i < j => ~TextLess(q[i].created_at, q[j].created_at)}

\* WHERE LOWER(name) LIKE '%' || search.lower() || '%'
WhereNameLike(table, search) ==
  LET like == <<"%">> \o PyLower(search) \o <<"%">>
  IN  {r \in table : Like(like, SqlLower(r.name))}

\* list_images: the responses the query may produce on this table.
list_images(table, search) ==
  IF search # <<>>
  THEN OrderByCreatedAtDesc(WhereNameLike(table, search))
  ELSE OrderByCreatedAtDesc(table)

\* GET /api/images?search=...
ListImages(searches) ==
  /\ \E search \in searches :
       \E items \in list_images(rows, search) :
         resp' = [NoResp EXCEPT !.op = "list", !.status = 200,
                                !.search = search, !.items = items]
  /\ UNCHANGED <<dep, rows, disk, nextId, up, del, srv, okDeleted>>

\* -------------------------------------------------------------- serve_file
\* The names a client may ask for: one path segment each.
ServeNames ==
  {PngName(i) : i \in KnownIds}
    \cup { DB_NAME, JOURNAL_NAME, <<"nope", ".png">> }

\* serve_file: 404 when IMAGE_DIR / name does not exist, else a FileResponse
\* for the path (status 200, no body yet).
serve_file(image_dir, files, name) ==
  LET path == image_dir \o << name >>
  IN  IF path \notin DOMAIN files
      THEN [NoResp EXCEPT !.op = "file", !.status = 404, !.name = name]
      ELSE [NoResp EXCEPT !.op = "file", !.status = 200, !.name = name]

\* GET /api/file/{name} (src/main.py only): the handler. One fetch is
\* followed at a time.
ServeFile ==
  /\ dep.app = "main"
  /\ srv.pc = "idle"
  /\ \E name \in ServeNames :
       LET r == serve_file(dep.image_dir, disk, name)
       IN  IF r.status = 404
           THEN resp' = r /\ srv' = IdleServe
           ELSE resp' = NoResp /\ srv' = [pc |-> "send", name |-> name]
  /\ UNCHANGED <<dep, rows, disk, nextId, up, del, okDeleted>>

\* The FileResponse is sent: the file is read now, as image/png. When it is
\* gone by now the framework fails the response (status 500 stands for it).
ServeSend ==
  /\ srv.pc = "send"
  /\ LET path == dep.image_dir \o << srv.name >>
     IN  resp' = IF path \in DOMAIN disk
                 THEN [NoResp EXCEPT !.op = "file", !.status = 200,
                                     !.name = srv.name, !.body = disk[path]]
                 ELSE [NoResp EXCEPT !.op = "file", !.status = 500,
                                     !.name = srv.name]
  /\ srv' = IdleServe
  /\ UNCHANGED <<dep, rows, disk, nextId, up, del, okDeleted>>

\* ------------------------------------------------------------ specification
\* One upload request, from its arrival to its return.
Upload(u, batches, instants) ==
  \/ UploadBegin(u, batches)
  \/ UploadClassify(u)
  \/ UploadRead(u)
  \/ UploadWrite(u)
  \/ UploadInsert(u, instants)
  \/ UploadCommit(u)

\* One delete request.
Delete(d) ==
  \/ DeleteLookup(d)
  \/ DeleteRow(d)
  \/ DeleteCommit(d)
  \/ DeleteExists(d)
  \/ DeleteUnlink(d)

\* The service under concurrent uploads and deletes: the uploads as
\* coroutines of the one event loop, the deletes in worker threads.
Next ==
  \/ \E u \in Uploaders : Upload(u, Batches(PlainFiles), OneInstant)
  \/ \E d \in Deleters : Delete(d)

Spec == Init /\ [][Next]_vars

\* Uploads at different instants, a delete, and lists in between.
NextList ==
  \/ \E u \in Uploaders : Upload(u, Batches(PlainFiles), Instants)
  \/ Delete("d1")
  \/ ListImages({<<>>})

SpecList == Init /\ [][NextList]_vars

\* The upload pipeline on the full range of file names and contents.
NextUpload ==
  \/ \E u \in Uploaders : Upload(u, Batches(Files), OneInstant)

SpecUpload == Init /\ [][NextUpload]_vars

\* Uploads of the full range of names, and searches over what they stored.
NextSearch ==
  \/ \E u \in Uploaders : Upload(u, Batches(Files), OneInstant)
  \/ ListImages(Searches)

SpecSearch == Init /\ [][NextSearch]_vars

\* Uploads, deletes and direct file fetches.
NextServe ==
  \/ \E u \in Uploaders : Upload(u, Batches(PlainFiles), OneInstant)
  \/ \E d \in Deleters : Delete(d)
  \/ ServeFile
  \/ ServeSend

SpecServe == Init /\ [][NextServe]_vars

\* ------------------------------------------------------------------ claims
\* What the claims speak of, stated apart from the handlers' own helpers.

\* The name ends, letter case aside, with an extension of the app's list.
HasSupportedExt(app, name) ==
  \E e \in Supported(app) : EndsWith(PyLower(name), e)

\* The positions of files whose stripped name has a supported extension.
SupportedAt(app, files) ==
  {i \in DOMAIN files : HasSupportedExt(app, StripPath(files[i].filename))}

\* The sequence q without the positions in drop, order kept.
RECURSIVE Without(_, _, _)
Without(q, drop, i) ==
  IF i > Len(q) THEN <<>>
  ELSE IF i \in drop THEN Without(q, drop, i + 1)
  ELSE <<q[i]>> \o Without(q, drop, i + 1)

\* What an upload is to report for a batch: one (name, width, height) per
\* file with a supported extension and bytes that are an image, in order.
Reported(app, files) ==
  LET keep == {i \in SupportedAt(app, files) : files[i].raw.decodable}
      kept == Without(files, DOMAIN files \ keep, 1)
  IN  [k \in DOMAIN kept |->
         [name |-> StripPath(kept[k].filename),
          width |-> kept[k].raw.width, height |-> kept[k].raw.height]]

Brief(q) ==
  [k \in DOMAIN q |->
     [name |-> q[k].name, width |-> q[k].width, height |-> q[k].height]]

\* The rows in the table that carry an identifier drawn by upload request u.
RowsOfRequest(u) == {r \in rows : r.id \in up[u].drawn}

\* The files on disk whose name carries an identifier drawn by it.
PathsOfRequest(u) ==
  {FilePath(dep, iid) : iid \in up[u].drawn} \cap DOMAIN disk

UploadReturned(u) == up[u].pc = "done" /\ up[u].files # <<>>

\* What C1 promises of a returned request.
ReportsEveryImage(u) ==
  /\ up[u].status = 200
  /\ Brief(up[u].out) = Reported(dep.app, up[u].files)
  /\ \A j, k \in DOMAIN up[u].out : j # k => up[u].out[j].id # up[u].out[k].id
  /\ RowsOfRequest(u) = Range(up[u].out)
  /\ \A k \in DOMAIN up[u].out :
       Cardinality({r \in rows : r.id = up[u].out[k].id}) = 1

\* C1 as stated: a non-empty batch in which no write and no INSERT faults
\* returns one record per file with a supported extension and decodable
\* bytes, in the order submitted, each with the stripped name and the
\* codec's width and height, and each record is one row of the table when
\* upload returns.
C1_UploadReportsEveryImage ==
  \A u \in Uploaders :
     (UploadReturned(u) /\ up[u].faulted = {}) => ReportsEveryImage(u)

\* C1, amended: the same of a non-empty batch in which no read of a file's
\* bytes, no write and no INSERT faults.
C1_UploadReportsEveryImageRead ==
  \A u \in Uploaders :
     (UploadReturned(u) /\ up[u].faulted = {} /\ up[u].unread = {})
        => ReportsEveryImage(u)

\* C1's case: two images under different names, both reported, no fault.
C1_Witness ==
  \E u \in Uploaders :
     /\ UploadReturned(u) /\ up[u].faulted = {} /\ up[u].unread = {}
     /\ up[u].status = 200
     /\ Len(up[u].out) = 2
     /\ up[u].out[1].name # up[u].out[2].name
     /\ up[u].out[1].width # up[u].out[1].height
     /\ up[u].out[1].width # up[u].out[2].width

\* C2: a file whose stripped name has no supported extension is never
\* decoded, gets no file on disk, no record in the output and no row,
\* whatever its bytes are.
C2_UnsupportedLeavesNoTrace ==
  /\ \A r \in rows : HasSupportedExt(dep.app, r.name)
  /\ \A u \in Uploaders :
       LET ok == SupportedAt(dep.app, up[u].files)
       IN  /\ up[u].decoded \subseteq ok
           /\ up[u].wrote \subseteq ok
           /\ Cardinality(up[u].drawn) <= Cardinality(up[u].decoded)
           /\ Cardinality(PathsOfRequest(u)) = Cardinality(up[u].wrote)
           /\ \A k \in DOMAIN up[u].out :
                HasSupportedExt(dep.app, up[u].out[k].name)
           /\ Range(up[u].txn) \subseteq Range(up[u].out)
           /\ Len(up[u].out) <= Cardinality(ok)
           /\ UploadReturned(u) => RowsOfRequest(u) = Range(up[u].out)

\* C2's case: a valid image under an unsupported name was submitted next
\* to a supported one; the request returned with the supported one alone.
C2_Witness ==
  \E u \in Uploaders :
     /\ UploadReturned(u) /\ up[u].status = 200
     /\ \E i \in DOMAIN up[u].files :
          /\ i \notin SupportedAt(dep.app, up[u].files)
          /\ up[u].files[i].raw.decodable
     /\ Len(up[u].out) = 1
     /\ dep.app = "main"

\* The positions of the files of request u that failed after classification.
FailedAt(u) ==
  {i \in SupportedAt(dep.app, up[u].files) :
     \/ ~up[u].files[i].raw.decodable
     \/ i \in up[u].faulted
     \/ i \in up[u].unread}

\* C3: a file that fails after classification (its read raises, it is
\* undecodable, its write faults, its INSERT faults) raises nothing to the
\* caller, has no record and no row, and the other files are reported as if
\* it had not been submitted.
C3_PerFileFailureIsAbsorbed ==
  \A u \in Uploaders :
     UploadReturned(u) =>
        /\ up[u].status = 200
        /\ Brief(up[u].out) =
             Reported(dep.app, Without(up[u].files, FailedAt(u), 1))
        /\ RowsOfRequest(u) = Range(up[u].out)
        /\ Len(up[u].out) =
             Len(up[u].files) - Cardinality(FailedAt(u))
               - Cardinality(DOMAIN up[u].files \ SupportedAt(dep.app, up[u].files))

\* C3's case: the first file's write or INSERT faulted and the second was
\* stored and reported.
C3_Witness ==
  \E u \in Uploaders :
     /\ UploadReturned(u) /\ up[u].status = 200
     /\ Len(up[u].files) = 2
     /\ up[u].faulted = {1}
     /\ Len(up[u].out) = 1
     /\ up[u].out[1].name = StripPath(up[u].files[2].filename)

\* Another case of C3: the INSERT of one request ran into the write lock of
\* another upload's open transaction; both requests returned 200.
C3_LockedOut ==
  \E u, v \in Uploaders :
     /\ u # v
     /\ UploadReturned(u) /\ UploadReturned(v)
     /\ up[u].faulted # {} /\ up[u].out = <<>> /\ up[u].status = 200
     /\ Len(up[v].out) = 1 /\ up[v].faulted = {}

\* A timestamp text read back as <<second, microsecond>>.
DigitValue(c) == (CHOOSE i \in DOMAIN Digit : Digit[i] = c) - 1

FromIsoformat(text) ==
  <<DigitValue(text[1]), IF Len(text) = 1 THEN 0 ELSE DigitValue(text[3])>>

NotBefore(a, b) == a[1] > b[1] \/ (a[1] = b[1] /\ a[2] >= b[2])

\* C5: list() without a filter returns every row of the table exactly once,
\* newest first: each element's created_at is at or after the next one's.
C5_ListIsCompleteAndNewestFirst ==
  (resp.op = "list" /\ resp.search = <<>>) =>
     /\ Len(resp.items) = Cardinality(rows)
     /\ Range(resp.items) = rows
     /\ \A i \in 1..(Len(resp.items) - 1) :
          NotBefore(FromIsoformat(resp.items[i].created_at),
                    FromIsoformat(resp.items[i + 1].created_at))

\* C5's case: two rows created at different instants are listed.
C5_Witness ==
  /\ resp.op = "list" /\ resp.search = <<>>
  /\ Len(resp.items) = 2
  /\ resp.items[1].created_at # resp.items[2].created_at

\* C6: a delete that found its row returns success and one that did not
\* returns 404 (its lookup being all it did, table and files are as they
\* were); an id reported deleted is in no later table state, so in no later
\* list() result; a delete issued after a successful delete of the same id
\* returned ends in 404.
C6_DeleteThenNotFound ==
  /\ \A d \in Deleters :
       del[d].pc = "done" =>
          del[d].status = (IF del[d].found THEN 200 ELSE 404)
  /\ okDeleted \cap RowIds = {}
  /\ \A d \in Deleters :
       del[d].late => del[d].pc = "done" /\ del[d].status = 404

\* All rows inserted and not removed: committed, or in an open transaction.
AllRows == rows \cup UNION {Range(up[u].txn) : u \in Uploaders}

\* C8: every row (committed, or inserted by an upload in flight) has its
\* canonical PNG on disk at <IMAGE_DIR>/<id>.png, and the path delete derives
\* from the row's url is that path.
C8_RowHasItsFile ==
  \A r \in AllRows :
     LET p == FilePath(dep, r.id)
     IN  /\ p \in DOMAIN disk
         /\ disk[p].kind = "png"
         /\ RemovalPath(dep, r.url) = p

\* C8's case: a row exists while an upload is in flight and a delete has
\* removed another row but not yet its file.
C8_Witness ==
  /\ AllRows # {}
  /\ \E u \in Uploaders : up[u].pc \in {"file", "read", "write", "insert"}
  /\ \E d \in Deleters : del[d].pc = "unlink"

\* C9: a delete that found its row removes the row and returns success
\* whatever the removal of the file did.
C9_DeleteSucceedsDespiteFile ==
  \A d \in Deleters :
     (del[d].pc = "done" /\ del[d].found) =>
        /\ del[d].status = 200
        /\ del[d].id \notin RowIds

\* s occurs in t as a run of consecutive characters.
Contains(t, s) ==
  \E i \in 0..(Len(t) - Len(s)) : SubSeq(t, i + 1, i + Len(s)) = s

\* C4: list(search=s) returns exactly the rows whose name contains s as a
\* literal substring, letter case aside; an empty search returns all rows.
C4_SearchIsLiteralSubstring ==
  resp.op = "list" =>
     Range(resp.items) =
        IF resp.search = <<>> THEN rows
        ELSE {r \in rows : Contains(PyLower(r.name), PyLower(resp.search))}

\* C7: GET /api/file/{name} answers 404 or the bytes of a canonical image
\* the upload pipeline wrote for some identifier.
C7_ServesOnlyImages ==
  resp.op = "file" =>
     \/ resp.status = 404
     \/ /\ resp.status = 200
        /\ resp.body.kind = "png"
        /\ \E i \in KnownIds : resp.name = PngName(i)

\* C10: of the delete requests for one id, at most one returns success.
C10_AtMostOneDeleteSucceeds ==
  \A d1, d2 \in Deleters :
     (/\ d1 # d2
      /\ del[d1].pc = "done" /\ del[d2].pc = "done"
      /\ del[d1].id = del[d2].id)
       => ~(del[d1].status = 200 /\ del[d2].status = 200)
====
